---- MODULE Spec2Model ----
(***************************************************************************)
(* A model of src/evaluate.py (MLGWSC-1 evaluation): the injection-window  *)
(* filter find_injection_times, the nearest-value matcher                  *)
(* find_closest_index, and get_stats (classification, FAR curves, the      *)
(* grouping loop that collects the found injections and the sensitivity    *)
(* estimate).                                                              *)
(*                                                                         *)
(* Times, statistics and tolerances are integers.  Array indices are the   *)
(* 0-based indices of the Python code; a TLA+ sequence s holds the element *)
(* of index i at s[i + 1].  A rate n / duration is the pair <<n, duration>>.*)
(* A rational is a pair <<numerator, denominator>>.  A chirp mass enters   *)
(* the results only through its power 5/2, so the array massc is kept as   *)
(* the array of massc ** (5/2); the masses are drawn from pairs for which  *)
(* that power is an integer.  The volume (4/3) pi dmax^3 num / den is the  *)
(* triple <<num, den, dmax>>.                                              *)
(***************************************************************************)
EXTENDS Integers, Sequences, FiniteSets, TLC

\* ---------------------------------------------------------------- bounds
MaxRef == 3       \* longest reference array handed to the matcher alone
MaxVal == 4       \* reference values are 0..MaxVal, queries -1..MaxVal+1
MaxSeg == 2       \* most segments in the foreground files
MaxLen == 2       \* most samples in a segment
MaxPad == 1       \* largest padding at either end
MaxInj == 2       \* most injections
MaxEv == 2        \* most foreground events
MaxBg == 1        \* most background events next to a full foreground
MaxPool == 3      \* most background events when the FAR curve is studied
MaxDur == 2       \* durations passed when the FAR curve is studied
MaxThr == 2       \* most background events when the sensitivity is studied

\* Value domains of get_stats' inputs
Times == 0..1     \* injection and event times
Stats == 1..2     \* ranking statistics
Tols == 0..1      \* tolerances
\* Pairs <<mass1, mass2>> whose chirp mass to the power 5/2 is an integer
\* (4 and 128)
MassPairs == {<<2, 2>>, <<8, 8>>}

VARIABLES
    pc,                 \* position of the function being run
    \* find_closest_index called on its own
    m_array, m_value, m_sorted, m_ridxs,
    \* find_injection_times
    segments, padding_start, padding_end, injtimes, f_duration, f_contained,
    \* get_stats
    fgevents, bgevents, injparams, duration, chirp_distance,
    idxs, tpbidxs, noise_stats, found_injections, ret

matchVars == <<m_array, m_value, m_sorted, m_ridxs>>
filterVars == <<segments, padding_start, padding_end, injtimes,
                f_duration, f_contained>>
statsVars == <<fgevents, bgevents, injparams, duration, chirp_distance,
               idxs, tpbidxs, noise_stats, found_injections, ret>>
vars == <<pc, matchVars, filterVars, statsVars>>

\* Python's None, for a value that is otherwise a non-negative number
None == 0 - 1

\* ------------------------------------------------------- numpy primitives
Abs(x) == IF x < 0 THEN -x ELSE x

Maximum(a, b) == IF a >= b THEN a ELSE b

Minimum(a, b) == IF a <= b THEN a ELSE b

\* np.max / np.min of a non-empty set of numbers
SetMax(S) == CHOOSE x \in S : \A y \in S : y <= x

SetMin(S) == CHOOSE x \in S : \A y \in S : x <= y

Range(s) == {s[k] : k \in 1..Len(s)}

\* All sequences over S of length lo..hi
SeqsOf(S, lo, hi) == UNION {[1..n -> S] : n \in lo..hi}

IsSorted(s) == \A k \in 1..(Len(s) - 1) : s[k] <= s[k + 1]

\* ndarray.sort(): the values in ascending order
Sort(s) == SortSeq(s, LAMBDA a, b : a < b)

\* The results ndarray.argsort() may return: the default kind is not stable,
\* so any permutation of 0..n-1 that puts the values in ascending order.
ArgSorts(s) ==
    {p \in [1..Len(s) -> 0..(Len(s) - 1)] :
        /\ \A a, b \in 1..Len(s) : a # b => p[a] # p[b]
        /\ \A k \in 1..(Len(s) - 1) : s[p[k] + 1] <= s[p[k + 1] + 1]}

\* a[p]: fancy indexing of a by the index array p
Take(a, p) == [k \in 1..Len(p) |-> a[p[k] + 1]]

\* np.searchsorted(a, v, side='right') on ascending a: the index i with
\* a[j] <= v for j < i and v < a[j] for j >= i
SearchSortedRight(a, v) == Cardinality({k \in 1..Len(a) : a[k] <= v})

\* np.searchsorted(a, v, side='left') on ascending a
SearchSortedLeft(a, v) == Cardinality({k \in 1..Len(a) : a[k] < v})

\* np.arange(n)[mask]: the indices where mask holds, ascending
RECURSIVE Where(_, _)
Where(mask, k) ==
    IF k > Len(mask) THEN <<>>
    ELSE (IF mask[k] THEN <<k - 1>> ELSE <<>>) \o Where(mask, k + 1)

\* ---------------------------------------------------- find_closest_index
CompNoFabs(array, lidx, ridx, value) ==
    array[lidx + 1] - value
        < array[Minimum(ridx, Len(array) - 1) + 1] - value

CompOrEqual(array, lidx, ridx, value) ==
    Abs(array[lidx + 1] - value)
        <= Abs(array[Minimum(ridx, Len(array) - 1) + 1] - value)

\* comp: the left neighbour is strictly closer than the right one
Comp(array, lidx, ridx, value) ==
    Abs(array[lidx + 1] - value)
        < Abs(array[Minimum(ridx, Len(array) - 1) + 1] - value)

\* The array the search runs on: a sorted copy unless assume_sorted
SearchArray(array, assume_sorted) ==
    IF assume_sorted THEN array ELSE Sort(array)

\* The search of find_closest_index for one value in the ascending array arr
ClosestInSorted(arr, value) ==
    LET ridx == SearchSortedRight(arr, value)
        lidx == Maximum(ridx - 1, 0)
        lisbetter == (ridx = Len(arr)) \/ Comp(arr, lidx, ridx, value)
    IN  IF lisbetter THEN ridx - 1 ELSE ridx

\* find_closest_index for one value of a non-empty array; the index
\* returned refers to the array the search ran on
find_closest_index(array, value, assume_sorted) ==
    ClosestInSorted(SearchArray(array, assume_sorted), value)

InitMatchVars ==
    /\ m_array = <<>> /\ m_value = 0 /\ m_sorted = FALSE /\ m_ridxs = None

InitFilterVars ==
    /\ segments = <<>> /\ padding_start = 0 /\ padding_end = 0
    /\ injtimes = <<>> /\ f_duration = 0 /\ f_contained = <<>>

InitStatsVars ==
    /\ fgevents = <<>> /\ bgevents = <<>> /\ injparams = <<>>
    /\ duration = None /\ chirp_distance = FALSE
    /\ idxs = <<>> /\ tpbidxs = <<>>
    /\ noise_stats = <<>> /\ found_injections = <<>> /\ ret = <<>>

\* A call find_closest_index(array, value, assume_sorted): the caller
\* passes assume_sorted=True only for an ascending array.
InitMatch ==
    /\ pc = "match"
    /\ m_array \in SeqsOf(0..MaxVal, 1, MaxRef)
    /\ m_value \in (-1)..(MaxVal + 1)
    /\ m_sorted \in {b \in BOOLEAN : b => IsSorted(m_array)}
    /\ m_ridxs = None
    /\ InitFilterVars /\ InitStatsVars

Match ==
    /\ pc = "match"
    /\ m_ridxs' = find_closest_index(m_array, m_value, m_sorted)
    /\ pc' = "match_done"
    /\ UNCHANGED <<m_array, m_value, m_sorted, filterVars, statsVars>>

NextMatch == Match

SpecMatch == InitMatch /\ [][NextMatch]_vars

\* C2: for a non-empty ascending reference array and any query value (in
\* range, below the first, above the last or equal to an element) the index
\* returned is a valid index whose element is at least as close to the
\* query as every other element.
MatcherCorrect ==
    (pc = "match_done" /\ IsSorted(m_array)) =>
        /\ m_ridxs \in 0..(Len(m_array) - 1)
        /\ \A j \in 1..Len(m_array) :
               Abs(m_array[m_ridxs + 1] - m_value)
                   <= Abs(m_array[j] - m_value)

\* A query strictly inside the range whose nearest element is the first
MatcherCorrectWitness ==
    /\ pc = "match_done" /\ IsSorted(m_array) /\ Len(m_array) >= 2
    /\ m_array[1] < m_value /\ m_value < m_array[Len(m_array)]
    /\ m_ridxs = 0

\* i (0-based, 1 <= i < len) is a tie position: the query lies strictly
\* between the adjacent elements R[i-1] and R[i], at the same distance
IsMidpoint(R, v, i) ==
    /\ R[i] < v /\ v < R[i + 1]
    /\ v - R[i] = R[i + 1] - v

\* C3: a query at the exact midpoint of two adjacent reference values gets
\* the higher index, never the lower one.
TieGoesToHigherIndex ==
    (pc = "match_done" /\ IsSorted(m_array)) =>
        \A i \in 1..(Len(m_array) - 1) :
            IsMidpoint(m_array, m_value, i) => m_ridxs = i

TieWitness ==
    /\ pc = "match_done" /\ IsSorted(m_array)
    /\ \E i \in 1..(Len(m_array) - 1) :
           IsMidpoint(m_array, m_value, i) /\ m_ridxs = i

\* --------------------------------------------------------------- get_stats
\* An event array has three rows: time, statistic, tolerance.  It is kept
\* as the sequence of its columns <<time, stat, var>>.
Row(events, r) == [e \in 1..Len(events) |-> events[e][r + 1]]

Events == Times \X Stats \X Tols

\* Only the statistic row of the background events is read.
BgEvents == {<<0, s, 0>> : s \in Stats}

IsTruePositiveStrict(diff, tol) == diff < tol

\* tpbidxs = diff <= fgevents[2]
IsTruePositive(diff, tol) == diff <= tol

\* fpbidxs = diff > fgevents[2]
IsFalsePositive(diff, tol) == diff > tol

\* np.setdiff1d(a, b): the sorted unique values of a that are not in b
RECURSIVE Ascending(_)
Ascending(S) ==
    IF S = {} THEN <<>> ELSE <<SetMin(S)>> \o Ascending(S \ {SetMin(S)})

SetDiff1d(a, b) == Ascending(Range(a) \ Range(b))

\* Injections at the times t, all at distance 1 and of masses 2 and 2
UnitParams(t) ==
    [tc |-> t,
     distance |-> [i \in 1..Len(t) |-> 1],
     mass1 |-> [i \in 1..Len(t) |-> 2],
     mass2 |-> [i \in 1..Len(t) |-> 2]]

InitStats ==
    /\ pc = "start"
    /\ injparams \in {UnitParams(t) : t \in SeqsOf(Times, 1, MaxInj)}
    /\ chirp_distance = FALSE
    /\ fgevents \in SeqsOf(Events, 0, MaxEv)
    /\ bgevents \in SeqsOf(BgEvents, 0, MaxBg)
    /\ duration = 1
    /\ idxs = <<>> /\ tpbidxs = <<>> /\ noise_stats = <<>>
    /\ found_injections = <<>> /\ ret = <<>>
    /\ InitMatchVars /\ InitFilterVars

\* get_stats up to the diagnostic outputs: sort the foreground events by
\* time, match each to an injection and classify it.
\* Two arrays numpy can combine elementwise: equal lengths, or one of
\* length 1 that is repeated
Broadcastable(a, b) == Len(a) = Len(b) \/ Len(a) = 1 \/ Len(b) = 1

\* Exact integer square root
ISqrt(n) == CHOOSE r \in 0..n : r * r = n

\* mchirp(mass1, mass2) ** (5/2) = sqrt((mass1 * mass2)^3 / (mass1 + mass2))
mchirp52(mass1, mass2) ==
    ISqrt(((mass1 * mass2) * (mass1 * mass2) * (mass1 * mass2))
              \div (mass1 + mass2))

\* massc ** (5/2) for massc = mchirp(injparams['mass1'], injparams['mass2'])
MassC52(mass1, mass2) ==
    [i \in 1..Maximum(Len(mass1), Len(mass2)) |->
        mchirp52(mass1[IF Len(mass1) = 1 THEN 1 ELSE i],
                 mass2[IF Len(mass2) = 1 THEN 1 ELSE i])]

\* get_stats, line 148: mchirp raises a ValueError for arrays of masses
\* that cannot be broadcast together
MchirpError ==
    /\ pc = "start"
    /\ chirp_distance /\ ~ Broadcastable(injparams.mass1, injparams.mass2)
    /\ pc' = "error"
    /\ UNCHANGED <<statsVars, matchVars, filterVars>>

Classify ==
    /\ pc = "start"
    /\ ~ (chirp_distance /\ ~ Broadcastable(injparams.mass1, injparams.mass2))
    /\ \E sidxs \in ArgSorts(Row(fgevents, 0)) :
       \E fg \in {Take(fgevents, sidxs)} :
       \E ix \in {[e \in 1..Len(fg) |->
                     find_closest_index(injparams.tc, fg[e][1], FALSE)]} :
       \E diff \in {[e \in 1..Len(fg) |->
                       Abs(injparams.tc[ix[e] + 1] - fg[e][1])]} :
       \E tpb \in {[e \in 1..Len(fg) |->
                      IsTruePositive(diff[e], fg[e][3])]} :
       \E fpb \in {[e \in 1..Len(fg) |->
                      IsFalsePositive(diff[e], fg[e][3])]} :
        LET injt == injparams.tc
            tpidxs == Where(tpb, 1)
            fpidxs == Where(fpb, 1)
            arange == [i \in 1..Len(injt) |-> i - 1]
            found == Take(arange, ix)
        IN  /\ duration' = IF duration = None
                           THEN SetMax(Range(injt)) - SetMin(Range(injt))
                           ELSE duration
            /\ fgevents' = fg
            /\ idxs' = ix
            /\ tpbidxs' = tpb
            /\ ret' = ("fg-events" :> fg)
                   @@ ("found-indices" :> found)
                   @@ ("missed-indices" :> SetDiff1d(arange, found))
                   @@ ("true-positive-event-indices" :> tpidxs)
                   @@ ("false-positive-event-indices" :> fpidxs)
                   @@ ("sorting-indices" :> sidxs)
                   @@ ("true-positive-diffs" :> Take(diff, tpidxs))
                   @@ ("false-positive-diffs" :> Take(diff, fpidxs))
                   @@ ("true-positives" :> Take(fg, tpidxs))
                   @@ ("false-positives" :> Take(fg, fpidxs))
    /\ pc' = "classified"
    /\ UNCHANGED <<bgevents, injparams, chirp_distance, noise_stats,
                   found_injections>>
    /\ UNCHANGED <<matchVars, filterVars>>

Rate(n, dur) == <<n, dur>>

FarCurveInclusive(n, dur) == [k \in 1..n |-> Rate(n - (k - 1), dur)]

FarCurveAscending(n, dur) == [k \in 1..n |-> Rate(k - 1, dur)]

\* (len(noise_stats) - np.arange(len(noise_stats)) - 1) / duration
FarCurve(n, dur) == [k \in 1..n |-> Rate(n - (k - 1) - 1, dur)]

FgNoiseStatsAll == Sort(Row(fgevents, 1))

\* The statistics the foreground FAR is computed from
FgNoiseStats == Sort(Row(ret["false-positives"], 1))

\* get_stats: the foreground and the background FAR
Far ==
    /\ pc = "classified"
    /\ noise_stats' = Sort(Row(bgevents, 1))
    /\ ret' = ("fg-far" :> FarCurve(Len(FgNoiseStats), duration))
           @@ ("far" :> FarCurve(Len(noise_stats'), duration))
           @@ ret
    /\ pc' = "far"
    /\ UNCHANGED <<fgevents, bgevents, injparams, duration, chirp_distance,
                   idxs, tpbidxs, found_injections>>
    /\ UNCHANGED <<matchVars, filterVars>>

EIdxsAll(group, iidxs, tpb) ==
    [k \in 1..Len(group) |-> iidxs[group[k] + 1]]

\* eidxs: of the events matched to one injection, the true positives
EIdxs(group, iidxs, tpb) ==
    [k \in 1..Len(group) |-> iidxs[group[k] + 1] /\ tpb[group[k] + 1]]

\* The grouping loop from injection i on: the records [i, best statistic]
\* appended to found_injections
RECURSIVE FoundLoop(_, _)
FoundLoop(i, tmpsidxs) ==
    IF i >= Len(injparams.tc) THEN <<>>
    ELSE
        LET sorted_idxs == Take(idxs, tmpsidxs)
            L == SearchSortedLeft(sorted_idxs, i)
            R == SearchSortedRight(sorted_idxs, i)
            group == SubSeq(tmpsidxs, L + 1, R)
            iidxs == [e \in 1..Len(idxs) |-> (e - 1) \in Range(group)]
            eidxs == EIdxs(group, iidxs, tpbidxs)
            best == SetMax({fgevents[group[k] + 1][2] :
                               k \in {n \in 1..Len(group) : eidxs[n]}})
        IN  (IF L >= Len(idxs) \/ sorted_idxs[L + 1] # i THEN <<>>
             ELSE IF \E k \in 1..Len(group) : eidxs[k] THEN << <<i, best>> >>
             ELSE <<>>)
            \o FoundLoop(i + 1, tmpsidxs)

\* get_stats: find the best true positive of each injection
Aggregate ==
    /\ pc = "far"
    /\ \E tmpsidxs \in ArgSorts(idxs) :
           found_injections' = FoundLoop(0, tmpsidxs)
    /\ pc' = "aggregated"
    /\ UNCHANGED <<fgevents, bgevents, injparams, duration, chirp_distance,
                   idxs, tpbidxs, noise_stats, ret>>
    /\ UNCHANGED <<matchVars, filterVars>>

\* ------------------------------------------------ get_stats: sensitivity
\* Rationals <<numerator, denominator>> with a positive denominator, kept
\* in lowest terms
RECURSIVE GCD(_, _)
GCD(a, b) == IF b = 0 THEN a ELSE GCD(b, a % b)

Lowest(x) ==
    LET g == GCD(Abs(x[1]), x[2]) IN <<x[1] \div g, x[2] \div g>>

RAdd(x, y) == Lowest(<<x[1] * y[2] + y[1] * x[2], x[2] * y[2]>>)

RSub(x, y) == Lowest(<<x[1] * y[2] - y[1] * x[2], x[2] * y[2]>>)

RMul(x, y) == Lowest(<<x[1] * y[1], x[2] * y[2]>>)

\* x / y for y > 0
RDiv(x, y) == Lowest(<<x[1] * y[2], x[2] * y[1]>>)

RInt(n) == <<n, 1>>

REq(x, y) == x[1] * y[2] = y[1] * x[2]

RLeq(x, y) == x[1] * y[2] <= y[1] * x[2]

\* np.flip
Flip(s) == [k \in 1..Len(s) |-> s[Len(s) + 1 - k]]

RECURSIVE SeqSum(_)
SeqSum(s) == IF s = <<>> THEN 0 ELSE s[1] + SeqSum(Tail(s))

\* np.cumsum
CumSum(s) == [k \in 1..Len(s) |-> SeqSum(SubSeq(s, 1, k))]

RECURSIVE RSeqSum(_)
RSeqSum(s) == IF s = <<>> THEN RInt(0) ELSE RAdd(s[1], RSeqSum(Tail(s)))

NFoundLeft(stats, t) == Len(stats) - SearchSortedLeft(stats, t)

\* nfound for one threshold: len(found_injections[1]) minus the right
\* insertion point of the threshold
NFound(stats, t) == Len(stats) - SearchSortedRight(stats, t)

CumSumNotFlipped(x) == CumSum(x) \o <<0>>

\* np.flip(np.cumsum(x)) followed by a 0, for x already flipped
FlippedCumSum(x) == Flip(CumSum(x)) \o <<0>>

\* fidxs for one threshold
ThresholdIndex(stats, t) == SearchSortedRight(stats, t)

\* sample_variance = second / Ninj - (first / Ninj) ** 2
SampleVarianceUnscaled(second, first, Ninj) ==
    RSub(RDiv(RInt(second), Ninj), RMul(RInt(first), RInt(first)))

SampleVariance(second, first, Ninj) ==
    RSub(RDiv(RInt(second), Ninj),
         RMul(RDiv(RInt(first), Ninj), RDiv(RInt(first), Ninj)))

\* get_stats, lines 219-225: found_injections[1] of the transposed array of
\* an empty list raises an IndexError
SensitivityError ==
    /\ pc = "aggregated"
    /\ found_injections = <<>>
    /\ pc' = "error"
    /\ UNCHANGED <<statsVars, matchVars, filterVars>>

\* get_stats, line 227: massc is indexed by a found injection it does not
\* have
MassIndexError ==
    /\ pc = "aggregated"
    /\ found_injections # <<>>
    /\ chirp_distance
    /\ \E k \in 1..Len(found_injections) :
           found_injections[k][1]
               >= Len(MassC52(injparams.mass1, injparams.mass2))
    /\ pc' = "error"
    /\ UNCHANGED <<statsVars, matchVars, filterVars>>

\* get_stats, lines 219-272: the sensitive volume, its error, the sensitive
\* distance and the sensitive fraction at every background threshold
Sensitivity ==
    /\ pc = "aggregated"
    /\ found_injections # <<>>
    /\ chirp_distance =>
           \A k \in 1..Len(found_injections) :
               found_injections[k][1]
                   < Len(MassC52(injparams.mass1, injparams.mass2))
    /\ \E sidxs \in ArgSorts([k \in 1..Len(found_injections) |->
                                 found_injections[k][2]]) :
       \E found \in {Take(found_injections, sidxs)} :
       \E stats \in {[k \in 1..Len(found) |-> found[k][2]]} :
       \E massc \in {IF chirp_distance
                     THEN MassC52(injparams.mass1, injparams.mass2)
                     ELSE <<>>} :
       \E found_mchirp_total \in
              {IF chirp_distance
               THEN Flip([k \in 1..Len(found) |-> massc[found[k][1] + 1]])
               ELSE <<>>} :
       \E cumsum \in {FlippedCumSum(found_mchirp_total)} :
       \E cumsumsq \in
              {FlippedCumSum([k \in 1..Len(found_mchirp_total) |->
                  found_mchirp_total[k] * found_mchirp_total[k]])} :
       \E mchirp_max \in {IF chirp_distance THEN SetMax(Range(massc))
                          ELSE 0} :
       \E Ninj \in {IF chirp_distance
                    THEN RSeqSum([i \in 1..Len(massc) |->
                                     RDiv(RInt(mchirp_max),
                                          RInt(massc[i]))])
                    ELSE RInt(Len(injparams.distance))} :
       \E nfound \in {[k \in 1..Len(noise_stats) |->
                          NFound(stats, noise_stats[k])]} :
       \E fidxs \in {[k \in 1..Len(noise_stats) |->
                         ThresholdIndex(stats, noise_stats[k])]} :
       \E mc_sum \in {[k \in 1..Len(noise_stats) |->
                          IF chirp_distance THEN cumsum[fidxs[k] + 1]
                          ELSE nfound[k]]} :
       \E second \in {[k \in 1..Len(noise_stats) |->
                          IF chirp_distance THEN cumsumsq[fidxs[k] + 1]
                          ELSE nfound[k]]} :
        LET dist == injparams.distance
            max_distance == SetMax(Range(dist))
            mc_norm == IF chirp_distance THEN mchirp_max * Len(massc)
                       ELSE Len(dist)
            sample_variance ==
                [k \in 1..Len(noise_stats) |->
                    SampleVariance(second[k], mc_sum[k], Ninj)]
            vol == [k \in 1..Len(noise_stats) |->
                       <<mc_sum[k], mc_norm, max_distance>>]
        IN  /\ found_injections' = found
            /\ ret' = ("sensitive-volume" :> vol)
                   @@ ("sensitive-distance" :> vol)
                   @@ ("sensitive-volume-error" :>
                          [k \in 1..Len(noise_stats) |->
                              <<RMul(Ninj, sample_variance[k]),
                                mc_norm, max_distance>>])
                   @@ ("sensitive-fraction" :>
                          [k \in 1..Len(noise_stats) |->
                              RDiv(RInt(nfound[k]), Ninj)])
                   @@ ret
    /\ pc' = "done"
    /\ UNCHANGED <<fgevents, bgevents, injparams, duration, chirp_distance,
                   idxs, tpbidxs, noise_stats>>
    /\ UNCHANGED <<matchVars, filterVars>>

\* get_stats on an injection set whose arrays have one length
Next ==
    \/ Classify \/ Far \/ Aggregate
    \/ SensitivityError \/ Sensitivity

\* get_stats on every foreground and injection set within the bounds
Spec == InitStats /\ [][Next]_vars

\* get_stats on larger background pools and more durations, with at most
\* one foreground event
InitFar ==
    /\ pc = "start"
    /\ injparams \in {UnitParams(t) : t \in SeqsOf(Times, 1, MaxInj)}
    /\ chirp_distance = FALSE
    /\ fgevents \in SeqsOf(Events, 0, 1)
    /\ bgevents \in SeqsOf(BgEvents, 0, MaxPool)
    /\ duration \in {None} \cup (1..MaxDur)
    /\ idxs = <<>> /\ tpbidxs = <<>> /\ noise_stats = <<>>
    /\ found_injections = <<>> /\ ret = <<>>
    /\ InitMatchVars /\ InitFilterVars

SpecFar == InitFar /\ [][Next]_vars

\* The distances given to n injections: 1..n, ascending or descending
Distances(n) == {[i \in 1..n |-> i], [i \in 1..n |-> n + 1 - i]}

\* get_stats in the uniform mode: injection times in ascending order,
\* events of tolerance 0 in any order
InitSens ==
    /\ pc = "start"
    /\ chirp_distance = FALSE
    /\ \E t \in {x \in SeqsOf(Times, 1, MaxInj) : IsSorted(x)} :
       \E d \in Distances(Len(t)) :
           injparams = [tc |-> t, distance |-> d,
                        mass1 |-> [i \in 1..Len(t) |-> 2],
                        mass2 |-> [i \in 1..Len(t) |-> 2]]
    /\ fgevents \in SeqsOf(Times \X Stats \X {0}, 0, MaxEv)
    /\ bgevents \in SeqsOf(BgEvents, 0, MaxThr)
    /\ duration = 1
    /\ idxs = <<>> /\ tpbidxs = <<>> /\ noise_stats = <<>>
    /\ found_injections = <<>> /\ ret = <<>>
    /\ InitMatchVars /\ InitFilterVars

SpecSens == InitSens /\ [][Next]_vars

\* get_stats in both weighting modes: injection times in ascending order
\* and distances in descending order, events of tolerance 0 in time order,
\* background events in order of statistic, masses that vary when they are
\* read
InitChirp ==
    /\ pc = "start"
    /\ chirp_distance \in BOOLEAN
    /\ \E t \in {x \in SeqsOf(Times, 1, MaxInj) : IsSorted(x)} :
       \E m \in IF chirp_distance THEN [1..Len(t) -> MassPairs]
                 ELSE {[i \in 1..Len(t) |-> <<2, 2>>]} :
           injparams = [tc |-> t,
                        distance |-> [i \in 1..Len(t) |-> Len(t) + 1 - i],
                        mass1 |-> [i \in 1..Len(t) |-> m[i][1]],
                        mass2 |-> [i \in 1..Len(t) |-> m[i][2]]]
    /\ fgevents \in {e \in SeqsOf(Times \X Stats \X {0}, 0, MaxEv) :
                         IsSorted(Row(e, 0))}
    /\ bgevents \in {e \in SeqsOf(BgEvents, 0, MaxThr) :
                         IsSorted(Row(e, 1))}
    /\ duration = 1
    /\ idxs = <<>> /\ tpbidxs = <<>> /\ noise_stats = <<>>
    /\ found_injections = <<>> /\ ret = <<>>
    /\ InitMatchVars /\ InitFilterVars

SpecChirp == InitChirp /\ [][Next]_vars

\* get_stats on an injection set whose arrays may have different lengths
NextAny == Next \/ MchirpError \/ MassIndexError

\* An array of n copies of v
Repeat(v, n) == [i \in 1..n |-> v]

InitMismatch ==
    /\ pc = "start"
    /\ chirp_distance \in BOOLEAN
    /\ \E t \in {x \in SeqsOf(Times, 1, MaxInj) : IsSorted(x)} :
       \E nd, n1, n2 \in 1..(MaxInj + 1) :
           injparams = [tc |-> t, distance |-> Repeat(1, nd),
                        mass1 |-> Repeat(2, n1), mass2 |-> Repeat(2, n2)]
    /\ fgevents \in SeqsOf(Times \X Stats \X {0}, 0, 1)
    /\ bgevents \in SeqsOf(BgEvents, 0, 1)
    /\ duration = 1
    /\ idxs = <<>> /\ tpbidxs = <<>> /\ noise_stats = <<>>
    /\ found_injections = <<>> /\ ret = <<>>
    /\ InitMatchVars /\ InitFilterVars

SpecMismatch == InitMismatch /\ [][NextAny]_vars

\* ------------------------------------------------- find_injection_times
\* A dataset of the foreground files is <<start_time, len(ds), delta_t>>;
\* the datasets of all files form one sequence.
Segments == (0..1) \X (0..MaxLen) \X {1}

ContainedHalfOpen(start, end, t) == start <= t /\ t < end

\* np.logical_and(start <= injtimes, injtimes <= end) for one injection
Contained(start, end, t) == start <= t /\ t <= end

\* if end > start: the padded window is kept
KeepWindow(start, end) == end > start

SegEnd(ds) == ds[1] + ds[2] * ds[3]

\* The list `times` of padded windows [start, end]
RECURSIVE Windows(_, _, _)
Windows(segs, pstart, pend) ==
    IF segs = <<>> THEN <<>>
    ELSE
        LET start == segs[1][1] + pstart
            end == SegEnd(segs[1]) - pend
        IN  (IF KeepWindow(start, end) THEN << <<start, end>> >> ELSE <<>>)
            \o Windows(Tail(segs), pstart, pend)

\* duration: the sum of the unpadded segment lengths
RECURSIVE TotalDuration(_)
TotalDuration(segs) ==
    IF segs = <<>> THEN 0
    ELSE (SegEnd(segs[1]) - segs[1][1]) + TotalDuration(Tail(segs))

InitFilter ==
    /\ pc = "filter"
    /\ segments \in SeqsOf(Segments, 0, MaxSeg)
    /\ padding_start \in 0..MaxPad
    /\ padding_end \in 0..MaxPad
    /\ injtimes \in SeqsOf(0..(MaxLen + 1), 1, MaxInj)
    /\ f_duration = 0 /\ f_contained = <<>>
    /\ InitMatchVars /\ InitStatsVars

find_injection_times ==
    /\ pc = "filter"
    /\ LET times == Windows(segments, padding_start, padding_end)
       IN  f_contained' =
               [i \in 1..Len(injtimes) |->
                   \E w \in 1..Len(times) :
                       Contained(times[w][1], times[w][2], injtimes[i])]
    /\ f_duration' = TotalDuration(segments)
    /\ pc' = "filter_done"
    /\ UNCHANGED <<segments, padding_start, padding_end, injtimes>>
    /\ UNCHANGED <<matchVars, statsVars>>

NextFilter == find_injection_times

SpecFilter == InitFilter /\ [][NextFilter]_vars

\* ------------------------------------------------------------ properties
NumInj == Len(injparams.tc)

\* |tc[i] - time of event e|, for the 0-based injection index i and the
\* event at position e of the time-sorted foreground events
Offset(i, e) == Abs(injparams.tc[i + 1] - fgevents[e][1])

AfterClassify == pc \in {"classified", "far", "aggregated"}

AfterFar == pc \in {"far", "aggregated"}

\* C1: whatever the order of injparams['tc'], the index matched to a
\* foreground event is an index of the nearest injection time in tc as
\* passed.
NearestInjectionMatched ==
    AfterClassify =>
        \A e \in 1..Len(fgevents) :
            /\ idxs[e] \in 0..(NumInj - 1)
            /\ \A j \in 0..(NumInj - 1) : Offset(idxs[e], e) <= Offset(j, e)

\* C4 as stated: an injection is contained iff some segment's padded window
\* has positive length and holds its time in the half-open sense
\* start+pad_start <= t < end-pad_end.
ContainedHalfOpenWindow ==
    pc = "filter_done" =>
        \A i \in 1..Len(injtimes) :
            f_contained[i] <=>
                \E k \in 1..Len(segments) :
                    LET start == segments[k][1] + padding_start
                        end == segments[k][1]
                                   + segments[k][2] * segments[k][3]
                                   - padding_end
                    IN  /\ end > start
                        /\ start <= injtimes[i] /\ injtimes[i] < end

\* C4 amended: the padded window is closed at both ends, start+pad_start
\* <= t <= end-pad_end; a segment whose padded window has non-positive
\* length contributes no window.
ContainedClosedWindow ==
    pc = "filter_done" =>
        \A i \in 1..Len(injtimes) :
            f_contained[i] <=>
                \E k \in 1..Len(segments) :
                    LET start == segments[k][1] + padding_start
                        end == segments[k][1]
                                   + segments[k][2] * segments[k][3]
                                   - padding_end
                    IN  /\ end > start
                        /\ start <= injtimes[i] /\ injtimes[i] <= end

\* An injection exactly at end-pad_end of one window and inside no other,
\* next to a segment whose padded window is empty
ContainedWitness ==
    /\ pc = "filter_done"
    /\ Len(segments) >= 2
    /\ \E k \in 1..Len(segments) :
           SegEnd(segments[k]) - padding_end
               <= segments[k][1] + padding_start
    /\ \E i \in 1..Len(injtimes) :
        /\ f_contained[i]
        /\ \A k \in 1..Len(segments) :
               ~ (/\ segments[k][1] + padding_start <= injtimes[i]
                  /\ injtimes[i] < SegEnd(segments[k]) - padding_end)

\* C5: an event is a true positive iff its offset to the matched injection
\* is within its own tolerance and a false positive otherwise; the two index
\* arrays are disjoint and list every foreground event exactly once.
ClassifierConsistent ==
    AfterClassify =>
        LET tp == ret["true-positive-event-indices"]
            fp == ret["false-positive-event-indices"]
        IN  /\ \A e \in 1..Len(fgevents) :
                   /\ (e - 1) \in Range(tp)
                          <=> Offset(idxs[e], e) <= fgevents[e][3]
                   /\ (e - 1) \in Range(fp) <=> (e - 1) \notin Range(tp)
            /\ Range(tp) \cap Range(fp) = {}
            /\ Range(tp) \cup Range(fp) = 0..(Len(fgevents) - 1)
            /\ Len(tp) + Len(fp) = Len(fgevents)

\* A true positive whose offset equals its tolerance next to a false
\* positive
ClassifierWitness ==
    /\ pc = "classified"
    /\ \E e, f \in 1..Len(fgevents) :
        /\ Offset(idxs[e], e) = fgevents[e][3] /\ fgevents[e][3] > 0
        /\ (e - 1) \in Range(ret["true-positive-event-indices"])
        /\ (f - 1) \in Range(ret["false-positive-event-indices"])

\* The events matched to injection i that are true positives
TruePositivesOf(i) ==
    {e \in 1..Len(fgevents) : idxs[e] = i /\ tpbidxs[e]}

\* C6: found-indices holds exactly the injections with a true-positive
\* event matched to them and missed-indices the other indices of 0..M-1.
FoundIndicesAreFound ==
    AfterClassify =>
        LET found == {i \in 0..(NumInj - 1) : TruePositivesOf(i) # {}}
        IN  /\ Range(ret["found-indices"]) = found
            /\ Range(ret["missed-indices"]) = (0..(NumInj - 1)) \ found

\* C7: after the grouping loop found_injections holds one record <<i, s>>
\* for each injection i with a true positive matched to it and no other
\* record, and s is the largest statistic of the true positives matched
\* to i.
AggregatorSound ==
    pc = "aggregated" =>
        /\ \A k \in 1..Len(found_injections) :
               found_injections[k][1] \in 0..(NumInj - 1)
        /\ \A i \in 0..(NumInj - 1) :
            LET recs == {k \in 1..Len(found_injections) :
                            found_injections[k][1] = i}
                tps == TruePositivesOf(i)
            IN  IF tps = {} THEN recs = {}
                ELSE /\ Cardinality(recs) = 1
                     /\ \A k \in recs :
                            found_injections[k][2]
                                = SetMax({fgevents[e][2] : e \in tps})

\* An injection matched by a true positive and by a false positive of
\* larger statistic
AggregatorWitness ==
    /\ pc = "aggregated"
    /\ \E e, f \in 1..Len(fgevents) :
        /\ idxs[e] = idxs[f] /\ tpbidxs[e] /\ ~ tpbidxs[f]
        /\ fgevents[f][2] > fgevents[e][2]
        /\ \E k \in 1..Len(found_injections) :
               found_injections[k] = <<idxs[e], fgevents[e][2]>>

\* s holds the values of row r of events in ascending order
IsSortedRow(s, events, r) ==
    /\ IsSorted(s)
    /\ Len(s) = Len(events)
    /\ \A v \in Range(s) \cup Range(Row(events, r)) :
           Cardinality({k \in 1..Len(s) : s[k] = v})
               = Cardinality({k \in 1..Len(events) : events[k][r + 1] = v})

\* curve has n entries and the entry of position k is (n - k - 1) / dur
IsFarCurve(curve, n, dur) ==
    /\ Len(curve) = n
    /\ \A k \in 0..(n - 1) : curve[k + 1] = <<n - k - 1, dur>>

\* a / b >= c / d for positive b, d
RateGeq(x, y) == x[1] * y[2] >= y[1] * x[2]

\* C8: the FAR curve of a pool of N statistics over a duration T > 0 has N
\* entries, the entry of ascending-sorted position k is (N - k - 1) / T, and
\* the rates do not increase along the sorted statistics.
FarCurveShape ==
    (AfterFar /\ duration > 0) =>
        /\ IsSortedRow(noise_stats, bgevents, 1)
        /\ IsFarCurve(ret["far"], Len(bgevents), duration)
        /\ IsFarCurve(ret["fg-far"], Len(ret["false-positives"]), duration)
        /\ \A k \in 1..(Len(ret["far"]) - 1) :
               RateGeq(ret["far"][k], ret["far"][k + 1])

\* A pool of three with a tie, over a duration other than 1
FarCurveWitness ==
    /\ pc = "far" /\ duration > 1
    /\ Len(bgevents) >= 3
    /\ \E k \in 1..(Len(noise_stats) - 1) :
           noise_stats[k] = noise_stats[k + 1]
    /\ \E k \in 1..(Len(noise_stats) - 1) :
           noise_stats[k] < noise_stats[k + 1]

DistinctStats(events) ==
    \A a, b \in 1..Len(events) : a # b => events[a][2] # events[b][2]

\* C9 as stated: with N distinct statistics over a duration T the largest
\* statistic gets the rate 1 / T (so a pool of one gets 1 / T).
LargestHasRateOneOverT ==
    (AfterFar /\ duration > 0 /\ Len(bgevents) >= 1
        /\ DistinctStats(bgevents)) =>
        RateGeq(ret["far"][Len(bgevents)], <<1, duration>>)
            /\ RateGeq(<<1, duration>>, ret["far"][Len(bgevents)])

\* C9 amended: with N distinct statistics over a duration T the largest
\* statistic gets the rate 0 (so a pool of one gets 0).
LargestHasRateZero ==
    (AfterFar /\ duration > 0 /\ Len(bgevents) >= 1
        /\ DistinctStats(bgevents)) =>
        RateGeq(ret["far"][Len(bgevents)], <<0, duration>>)
            /\ RateGeq(<<0, duration>>, ret["far"][Len(bgevents)])

LargestRateWitness ==
    /\ pc = "far" /\ duration = MaxDur
    /\ Len(bgevents) = 2 /\ DistinctStats(bgevents)
    /\ ret["far"][2][1] = 0

\* C10 as stated: fg-far has one rate per foreground event, true and false
\* positives alike, and far one rate per background event.
FgFarCoversForeground ==
    AfterFar =>
        /\ Len(ret["fg-far"]) = Len(fgevents)
        /\ Len(ret["far"]) = Len(bgevents)

\* C10 amended: fg-far is the FAR curve of the false-positive foreground
\* events only, one rate per false positive and none for a true positive;
\* far is the FAR curve of the background events, one rate per background
\* event; each is fixed by the size of its own pool and the duration.
FgFarCoversFalsePositives ==
    AfterFar =>
        /\ IsFarCurve(ret["fg-far"],
                      Cardinality({e \in 1..Len(fgevents) : ~ tpbidxs[e]}),
                      duration)
        /\ IsFarCurve(ret["far"], Len(bgevents), duration)

\* A foreground with a true and a false positive and a background pool of
\* another size than the false positives
FgFarWitness ==
    /\ pc = "far"
    /\ \E e, f \in 1..Len(fgevents) : tpbidxs[e] /\ ~ tpbidxs[f]
    /\ Len(ret["fg-far"]) = 1
    /\ Len(ret["far"]) # Len(ret["fg-far"])

\* The best statistic of injection i: the largest statistic of the true
\* positives matched to it
BestOf(i) == SetMax({fgevents[e][2] : e \in TruePositivesOf(i)})

\* The found injections whose best statistic is strictly greater than t
FoundAbove(t) ==
    {i \in 0..(NumInj - 1) : TruePositivesOf(i) # {} /\ BestOf(i) > t}

\* weight(i) = mchirp_i ** (5/2)
Weight(i) == mchirp52(injparams.mass1[i + 1], injparams.mass2[i + 1])

\* The sum of weight(i) (p = 1) or weight(i)^2 (p = 2) over FoundAbove(t)
MomentAbove(t, p) ==
    SeqSum([j \in 1..NumInj |->
               IF (j - 1) \in FoundAbove(t)
               THEN (IF p = 1 THEN Weight(j - 1)
                     ELSE Weight(j - 1) * Weight(j - 1))
               ELSE 0])

\* C11: in the uniform mode, at every background statistic t, n_found(t)
\* counts the found injections whose best statistic is strictly greater
\* than t, the sensitive volume is (4/3) pi D_max^3 n_found(t) / M and the
\* sensitive fraction is n_found(t) / M, M being the number of injections.
UniformSensitivity ==
    (pc = "done" /\ ~ chirp_distance) =>
        /\ IsSortedRow(noise_stats, bgevents, 1)
        /\ Len(ret["sensitive-volume"]) = Len(noise_stats)
        /\ Len(ret["sensitive-fraction"]) = Len(noise_stats)
        /\ \A k \in 1..Len(noise_stats) :
            LET n == Cardinality(FoundAbove(noise_stats[k]))
                vol == ret["sensitive-volume"][k]
            IN  /\ REq(<<vol[1], vol[2]>>, <<n, NumInj>>)
                /\ vol[3] = SetMax(Range(injparams.distance))
                /\ REq(ret["sensitive-fraction"][k], <<n, NumInj>>)

\* Two found injections, one with a best statistic equal to a threshold
\* and one above it, the largest distance not being the last
UniformSensitivityWitness ==
    /\ pc = "done" /\ ~ chirp_distance
    /\ injparams.distance[NumInj] < SetMax(Range(injparams.distance))
    /\ \E k \in 1..Len(noise_stats) :
        /\ Cardinality(FoundAbove(noise_stats[k])) = 1
        /\ \E i \in 0..(NumInj - 1) :
               TruePositivesOf(i) # {} /\ BestOf(i) = noise_stats[k]

EffectiveCount ==
    LET wmax == SetMax({Weight(i) : i \in 0..(NumInj - 1)})
    IN  RSeqSum([j \in 1..NumInj |-> <<wmax, Weight(j - 1)>>])

\* C13: in the chirp-mass-weighted mode, at every background threshold t,
\* mc_sum(t) is the sum of weight(i) over the found injections whose best
\* statistic is strictly greater than t, the second-moment term is the sum
\* of weight(i)^2 over the same injections, and both are 0 when no found
\* statistic exceeds t.
WeightedSums ==
    (pc = "done" /\ chirp_distance) =>
        \A k \in 1..Len(noise_stats) :
            LET first == MomentAbove(noise_stats[k], 1)
                second == MomentAbove(noise_stats[k], 2)
            IN  /\ ret["sensitive-volume"][k][1] = first
                /\ REq(ret["sensitive-volume-error"][k][1],
                       RSub(RInt(second),
                            RDiv(RInt(first * first), EffectiveCount)))

\* Two found injections of different weights, a threshold between their
\* best statistics and a threshold that no found statistic exceeds
WeightedSumsWitness ==
    /\ pc = "done" /\ chirp_distance
    /\ \E k \in 1..Len(noise_stats) :
       \E i, j \in 0..(NumInj - 1) :
        /\ FoundAbove(noise_stats[k]) = {i}
        /\ TruePositivesOf(j) # {} /\ i # j /\ Weight(i) # Weight(j)
        /\ ret["sensitive-volume"][k][1] = Weight(i)
    /\ \E k \in 1..Len(noise_stats) :
        /\ FoundAbove(noise_stats[k]) = {}
        /\ ret["sensitive-volume"][k][1] = 0

\* C14: get_stats returns no result for an injection set whose arrays tc,
\* distance, mass1 and mass2 differ in length.
NoResultFromMismatch ==
    pc = "done" =>
        /\ Len(injparams.distance) = Len(injparams.tc)
        /\ Len(injparams.mass1) = Len(injparams.tc)
        /\ Len(injparams.mass2) = Len(injparams.tc)

\* C15: a run without a true positive ends with a result in which
\* n_found, the sensitive fraction and the sensitive volume are 0 at every
\* background threshold.
CompleteBundleWithoutFound ==
    (pc \in {"done", "error"} /\ \A e \in 1..Len(fgevents) : ~ tpbidxs[e]) =>
        /\ pc = "done"
        /\ Len(ret["sensitive-fraction"]) = Len(bgevents)
        /\ \A k \in 1..Len(bgevents) :
               /\ ret["sensitive-fraction"][k][1] = 0
               /\ ret["sensitive-volume"][k][1] = 0

====
